---- MODULE Spec2Model ----
(***************************************************************************)
(* Model of the record store of ProjectGrupy3AddressBook.py: the           *)
(* AddressBook (a dict `data` of Records keyed by integer ID, `next_id`,   *)
(* `free_ids`), its search functions and the pickle persistence glue.      *)
(*                                                                         *)
(* Strings are sequences of one-character strings.  Records are objects   *)
(* on a heap (`heap`), the dict stores references to them, so that two     *)
(* keys can hold the same Record object.  An object is named by the place  *)
(* of its first entry in the dict: addresses carry no meaning in the       *)
(* program, and the objects that move up when an entry is deleted are      *)
(* renamed.                                                                *)
(***************************************************************************)
EXTENDS Integers, Sequences, FiniteSets, TLC

\* ---------------------------------------------------------------- bounds
MaxRecords == 3      \* most entries the store holds in Spec and SpecAlias
MaxChurn == 4        \* most entries the store holds in SpecAlloc
MaxFindRecords == 2  \* most entries of the stores that SpecFind searches
MaxIdInput == 4      \* largest number typed at the "Enter the ID" prompt
MaxTraversals == 2   \* traversals of one store that are followed
MaxIterRecords == 12 \* most entries of the stores that SpecIter traverses
DayTicks == 2        \* instants of one day that are told apart, midnight the first
MaxPersistRecords == 2 \* most entries of the store in SpecPersist
MaxEditRecords == 2  \* most entries of the store in SpecEdit
MaxRawLen == 10      \* longest string that Phone() is given
MaxPhones == 3       \* Phone objects constructed for one Record, and its list's length

\* ------------------------------------------------------- strings, fields
\* str.lower() on one character
LowerChar(c) ==
    CASE c = "A" -> "a"
      [] c = "B" -> "b"
      [] c = "L" -> "l"
      [] c = "O" -> "o"
      [] OTHER -> c

\* str.lower()
Lower(s) == [i \in 1..Len(s) |-> LowerChar(s[i])]

\* Python's `t in s` for strings
IsSubstr(t, s) ==
    \E i \in 0..(Len(s) - Len(t)) : SubSeq(s, i + 1, i + Len(t)) = t

\* values accepted by Phone.validate_phone (nine decimal digits)
Phone1 == <<"1", "2", "3", "4", "5", "6", "7", "8", "9">>
Phone2 == <<"9", "9", "9", "0", "0", "0", "9", "9", "9">>

\* values accepted by Email.validate_email
Email1 == <<"a", "1", "@", "b", ".", "c">>

NameAl == <<"A", "l">>
NameBo == <<"B", "o">>
NameA1 == <<"A", "1">>

\* ------------------------------------------------------------- variables
VARIABLES
    data,        \* AddressBook.data: the dict, as a sequence of [key, rec] in insertion order
    next_id,     \* AddressBook.next_id
    free_ids,    \* AddressBook.free_ids
    heap,        \* the Record objects: reference -> fields
    file,        \* address_book.pkl: what pickle.dump(book.data) wrote
    restored,    \* the book was returned by the success branch of load_address_book
    reassigned,  \* history: Records whose id was assigned while already set
    lastOp,      \* the operation that ran last
    outcome,     \* what the last operation printed
    lastId,      \* record.id assigned by add_record when it ran last, else 0
    term,        \* argument of the last search
    found,       \* result of the last find_record
    matching,    \* result of the last find_records_by_name
    current,     \* AddressBook.current, -1 while __iter__ has not set it
    trav,        \* history: for each traversal, what it has been handed so far
    rec_phones,  \* Record.phones of the Record being edited: a list of Phone objects
    made,        \* the Phone objects constructed so far: object i holds made[i]
    birthday,    \* Record.birthday.value, as year, month and day
    now,         \* what datetime.now() returns: date and time of day
    days,        \* what days_to_birthday returned
    raw,         \* the string handed to Phone()
    peak         \* history: the most entries this AddressBook held at one time

\* the variables of the traversals
iterVars == <<current, trav>>

\* the variables of one Record and its fields
fieldVars == <<rec_phones, made, birthday, now, days, raw>>

vars == <<data, next_id, free_ids, heap, file, restored, reassigned,
          lastOp, outcome, lastId, term, found, matching,
          current, trav, rec_phones, made, birthday, now, days, raw, peak>>

\* a store of n entries holds at most n different Record objects
MaxRefs ==
    LET m == IF MaxChurn >= MaxRecords /\ MaxChurn >= MaxFindRecords THEN MaxChurn
             ELSE IF MaxRecords >= MaxFindRecords THEN MaxRecords ELSE MaxFindRecords
    IN  IF MaxIterRecords >= m THEN MaxIterRecords ELSE m

Refs == 1..MaxRefs

\* Record.__init__ leaves id = None (0 here); a slot that holds no object has live = FALSE
NoRecord == [live |-> FALSE, id |-> 0, name |-> <<>>, phones |-> <<>>, emails |-> <<>>]

NewRecord(name, phones, emails) ==
    [live |-> TRUE, id |-> 0, name |-> name, phones |-> phones, emails |-> emails]

EmptyHeap == [r \in Refs |-> NoRecord]

Travs == 1..MaxTraversals

\* a traversal that was not started
NoTraversal == [state |-> "none", start |-> <<>>, batches |-> <<>>, alone |-> TRUE]

\* no date: Record.birthday is None
NoDate == [y |-> 0, m |-> 0, d |-> 0]

\* ------------------------------------------------------------ dict model
Keys(d) == {d[i].key : i \in 1..Len(d)}

Values(d) == {d[i].rec : i \in 1..Len(d)}

\* self.data[key] = rec : replaces the value in place when key exists, else appends
DictSet(d, key, rec) ==
    IF key \in Keys(d)
    THEN [i \in 1..Len(d) |-> IF d[i].key = key THEN [key |-> key, rec |-> rec] ELSE d[i]]
    ELSE Append(d, [key |-> key, rec |-> rec])

\* del self.data[key]
DictDel(d, key) == SelectSeq(d, LAMBDA e : e.key # key)

Min(S) == CHOOSE x \in S : \A y \in S : x <= y

\* the place of the first entry of d that holds the object r
FirstPos(d, r) == Min({j \in 1..Len(d) : d[j].rec = r})

\* pickle.dump(book.data): the entries by value; an object reached twice is
\* written once and referred to by the place where it was first met
Pickle(d, h) ==
    [i \in 1..Len(d) |->
        [key |-> d[i].key,
         obj |-> FirstPos(d, d[i].rec),
         val |-> h[d[i].rec]]]

\* pickle.load(file): new objects, shared as they were when written
UnpickleData(f) == [i \in 1..Len(f) |-> [key |-> f[i].key, rec |-> f[i].obj]]

UnpickleHeap(f) ==
    [r \in Refs |->
        IF \E i \in 1..Len(f) : f[i].obj = r
        THEN f[CHOOSE i \in 1..Len(f) : f[i].obj = r].val
        ELSE NoRecord]

\* ------------------------------------------------ AddressBook.add_record
\* a sweep that is left out: next_id is used as it stands
SweepSkipped(n, keys, free) == n

\* while self.next_id in self.data or self.next_id in self.free_ids: self.next_id += 1
RECURSIVE Sweep(_, _, _)
Sweep(n, keys, free) ==
    IF n \in keys \/ n \in free THEN Sweep(n + 1, keys, free) ELSE n

\* reuse of the largest released id instead of the smallest
PickIdLargest(free, nid) ==
    IF free # {} THEN CHOOSE x \in free : \A y \in free : y <= x ELSE nid

\* the id add_record gives to the record
PickId(free, nid) == IF free # {} THEN Min(free) ELSE nid

\* a reused id that is left in free_ids
TakeIdForgotten(free, id) == free

\* self.free_ids.remove(record.id) on the reuse branch
TakeId(free, id) == free \ {id}

\* an insert that moves next_id on whichever branch it took
NextAfterAlways(free, nid) == nid + 1

\* self.next_id += 1 on the fresh branch only
NextAfter(free, nid) == IF free # {} THEN nid ELSE nid + 1

\* the most entries a store has held, when it held at most old and now holds d
Peak(old, d) == IF Len(d) > old THEN Len(d) ELSE old

\* add_record on the Record object r, whose fields are rec when it is called
AddRecord(r, rec) ==
    LET nid == Sweep(next_id, Keys(data), free_ids)
        id  == PickId(free_ids, nid)
    IN  /\ next_id' = NextAfter(free_ids, nid)
        /\ free_ids' = IF free_ids # {} THEN TakeId(free_ids, id) ELSE free_ids
        /\ heap' = [heap EXCEPT ![r] = [rec EXCEPT !.id = id]]
        /\ reassigned' = IF rec.id # 0 THEN reassigned \cup {r} ELSE reassigned
        /\ data' = DictSet(data, id, r)
        /\ peak' = Peak(peak, DictSet(data, id, r))
        /\ lastId' = id
        /\ lastOp' = "add"
        /\ outcome' = "added"
        /\ UNCHANGED <<file, restored, term, found, matching>>
        /\ UNCHANGED <<iterVars, fieldVars>>

\* create_record() builds a new Record object, main() passes it to add_record;
\* the new object is named by the place its entry will take
AddNew(name, phones, emails, limit) ==
    /\ Len(data) < limit
    /\ AddRecord(Len(data) + 1, NewRecord(name, phones, emails))

\* add_record called with a Record object that the book already holds
AddExisting(r, limit) ==
    /\ Len(data) < limit
    /\ r \in Values(data)
    /\ AddRecord(r, heap[r])

\* ------------------------------------------------------------- searching
\* a name test that forgets lower()
NameHitCaseSensitive(t, rec) == IsSubstr(t, rec.name)

\* search_term.lower() in record.name.value.lower()
NameHit(t, rec) == IsSubstr(Lower(t), Lower(rec.name))

\* the loop over record.phones: search_term in phone.value
PhoneHit(t, rec) == \E i \in 1..Len(rec.phones) : IsSubstr(t, rec.phones[i])

\* the loop over record.emails: search_term in email.value
EmailHit(t, rec) == \E i \in 1..Len(rec.emails) : IsSubstr(t, rec.emails[i])

\* one pass of the body of find_record's outer loop: what it appends for one record
RecordHits(t, r, h) ==
    IF NameHit(t, h[r])
    THEN <<r>>
    ELSE (IF PhoneHit(t, h[r]) THEN <<r>> ELSE <<>>) \o
         (IF EmailHit(t, h[r]) THEN <<r>> ELSE <<>>)

\* AddressBook.find_record
RECURSIVE FindRecord(_, _, _)
FindRecord(d, h, t) ==
    IF d = <<>> THEN <<>>
    ELSE RecordHits(t, Head(d).rec, h) \o FindRecord(Tail(d), h, t)

\* a by-name test that also looks at the phones
ByNameHitOrPhone(t, rec) ==
    \/ IsSubstr(Lower(t), Lower(rec.name))
    \/ \E i \in 1..Len(rec.phones) : IsSubstr(t, rec.phones[i])

\* the test of find_records_by_name
ByNameHit(t, rec) == IsSubstr(Lower(t), Lower(rec.name))

\* AddressBook.find_records_by_name
RECURSIVE FindRecordsByName(_, _, _)
FindRecordsByName(d, h, t) ==
    IF d = <<>> THEN <<>>
    ELSE (IF ByNameHit(t, h[Head(d).rec]) THEN <<Head(d)>> ELSE <<>>)
         \o FindRecordsByName(Tail(d), h, t)

\* -------------------------------------------------------------- deleting
\* what is typed at an "Enter the ID" prompt: a numeral, a numeral after the
\* prefix "ID: ", or something int() rejects
IdInputs == [prefix : BOOLEAN, num : {TRUE}, val : 1..MaxIdInput]
            \cup {[prefix |-> FALSE, num |-> FALSE, val |-> 0]}

\* delete_record_by_id: input().strip().replace("ID: ", "").strip(), then int()
ParseIdPrompt(inp) == [ok |-> inp.num, val |-> inp.val]

\* delete_record: int(input()), the prefix is not removed
ParseInt(inp) == [ok |-> inp.num /\ ~inp.prefix, val |-> inp.val]

\* a delete that does not give the id back
ReleaseDropped(free, id) == free

\* self.free_ids.add(record_id)
Release(free, id) == free \cup {id}

\* a try block that releases the id before it looks for it in the dict
DeleteParsedReleaseFirst(p) ==
    IF ~p.ok
    THEN /\ outcome' = "invalid"
         /\ UNCHANGED <<data, free_ids, heap, reassigned>>
    ELSE IF p.val \in Keys(data)
    THEN LET d == DictDel(data, p.val)
         IN  /\ outcome' = "deleted"
             /\ free_ids' = Release(free_ids, p.val)
             /\ data' = UnpickleData(Pickle(d, heap))
             /\ heap' = UnpickleHeap(Pickle(d, heap))
             /\ reassigned' = {FirstPos(d, r) : r \in reassigned \cap Values(d)}
    ELSE /\ outcome' = "notfound"
         /\ free_ids' = Release(free_ids, p.val)
         /\ UNCHANGED <<data, heap, reassigned>>

\* the try block shared by delete_record_by_id and delete_record
DeleteParsed(p) ==
    IF ~p.ok
    THEN /\ outcome' = "invalid"
         /\ UNCHANGED <<data, free_ids, heap, reassigned>>
    ELSE IF p.val \in Keys(data)
    THEN LET d == DictDel(data, p.val)
         IN  /\ outcome' = "deleted"
             /\ free_ids' = Release(free_ids, p.val)
             /\ data' = UnpickleData(Pickle(d, heap))
             /\ heap' = UnpickleHeap(Pickle(d, heap))
             /\ reassigned' = {FirstPos(d, r) : r \in reassigned \cap Values(d)}
    ELSE /\ outcome' = "notfound"
         /\ UNCHANGED <<data, free_ids, heap, reassigned>>

\* AddressBook.delete_record_by_id
DeleteRecordById(inp) ==
    /\ lastOp' = "delete_record_by_id"
    /\ lastId' = 0
    /\ DeleteParsed(ParseIdPrompt(inp))
    /\ UNCHANGED <<next_id, peak, file, restored, term, found, matching>>
    /\ UNCHANGED <<iterVars, fieldVars>>

\* AddressBook.delete_record
DeleteRecord(name, inp) ==
    /\ lastOp' = "delete_record"
    /\ lastId' = 0
    /\ IF FindRecordsByName(data, heap, name) = <<>>
       THEN /\ outcome' = "nomatch"
            /\ UNCHANGED <<data, free_ids, heap, reassigned>>
       ELSE DeleteParsed(ParseInt(inp))
    /\ UNCHANGED <<next_id, peak, file, restored, term, found, matching>>
    /\ UNCHANGED <<iterVars, fieldVars>>

\* ----------------------------------------------------------- persistence
NoFile == [exists |-> FALSE, torn |-> FALSE, data |-> <<>>]

\* the file that a write that failed after open(filename, 'wb') leaves: it
\* exists and holds no complete pickle
TornFile == [exists |-> TRUE, torn |-> TRUE, data |-> <<>>]

\* save_address_book: pickle.dump(book.data, file)
SaveAddressBook ==
    /\ file' = [exists |-> TRUE, torn |-> FALSE, data |-> Pickle(data, heap)]
    /\ lastOp' = "save"
    /\ outcome' = "saved"
    /\ lastId' = 0
    /\ UNCHANGED <<data, peak, next_id, free_ids, heap, restored, reassigned,
                   term, found, matching>>
    /\ UNCHANGED <<iterVars, fieldVars>>

\* save_address_book when open() or pickle.dump raises: the except clause
\* prints the error; the file is as it was if open() raised, torn if the
\* write did
SaveFails ==
    /\ file' \in {file, TornFile}
    /\ lastOp' = "save"
    /\ outcome' = "save_error"
    /\ lastId' = 0
    /\ UNCHANGED <<data, peak, next_id, free_ids, heap, restored, reassigned,
                   term, found, matching>>
    /\ UNCHANGED <<iterVars, fieldVars>>

\* a load without the last except clause: what pickle.load raises leaves it
LoadAddressBookUncaught ==
    /\ IF file.exists /\ ~file.torn
       THEN /\ data' = UnpickleData(file.data)
            /\ heap' = UnpickleHeap(file.data)
            /\ next_id' = 1 /\ free_ids' = {} /\ reassigned' = {}
            /\ restored' = TRUE
            /\ outcome' = "restored"
       ELSE IF ~file.exists
       THEN /\ data' = <<>>
            /\ heap' = EmptyHeap
            /\ next_id' = 1 /\ free_ids' = {} /\ reassigned' = {}
            /\ restored' = FALSE
            /\ outcome' = "missing"
       ELSE /\ UNCHANGED <<data, heap, next_id, free_ids, reassigned, restored>>
            /\ outcome' = "raised"
    /\ peak' = Len(data')
    /\ lastOp' = "load"
    /\ lastId' = 0
    /\ UNCHANGED <<file, term, found, matching>>
    /\ UNCHANGED <<iterVars, fieldVars>>

\* load_address_book: AddressBook() and then book.data = pickle.load(file);
\* a new AddressBook() when the file does not exist, and when pickle.load
\* raises on what the file holds
LoadAddressBook ==
    /\ next_id' = 1
    /\ free_ids' = {}
    /\ reassigned' = {}
    /\ IF file.exists /\ ~file.torn
       THEN /\ data' = UnpickleData(file.data)
            /\ heap' = UnpickleHeap(file.data)
            /\ restored' = TRUE
            /\ outcome' = "restored"
       ELSE /\ data' = <<>>
            /\ heap' = EmptyHeap
            /\ restored' = FALSE
            /\ outcome' = IF file.exists THEN "load_error" ELSE "missing"
    /\ peak' = Len(data')
    /\ lastOp' = "load"
    /\ lastId' = 0
    /\ UNCHANGED <<file, term, found, matching>>
    /\ UNCHANGED <<iterVars, fieldVars>>

\* load_address_book when open() raises for a file that exists: the last
\* except clause returns a new AddressBook()
LoadFails ==
    /\ file.exists
    /\ data' = <<>>
    /\ heap' = EmptyHeap
    /\ next_id' = 1
    /\ free_ids' = {}
    /\ reassigned' = {}
    /\ restored' = FALSE
    /\ peak' = 0
    /\ outcome' = "load_error"
    /\ lastOp' = "load"
    /\ lastId' = 0
    /\ UNCHANGED <<file, term, found, matching>>
    /\ UNCHANGED <<iterVars, fieldVars>>

\* ------------------------------------------------------------ traversal
\* the 5 of self.current:self.current+5 and of self.current += 5
BatchSize == 5

\* Python's seq[lo:hi], which stops at the end of seq
Slice(seq, lo, hi) ==
    SubSeq(seq, lo + 1, IF hi <= Len(seq) THEN hi ELSE Len(seq))

\* a step that moves the offset one place too far
AdvancePastOne(c) == c + BatchSize + 1

\* self.current += 5
Advance(c) == c + BatchSize

\* the other traversals that are under way are no longer on their own
Disturbed(t) ==
    [u \in Travs |->
        IF u # t /\ trav[u].state = "open" THEN [trav[u] EXCEPT !.alone = FALSE]
        ELSE trav[u]]

\* AddressBook.__iter__, called to start traversal t
Iter(t) ==
    /\ trav[t].state = "none"
    /\ current' = 0
    /\ trav' = [Disturbed(t) EXCEPT ![t] =
                    [state |-> "open", start |-> [i \in 1..Len(data) |-> data[i].key],
                     batches |-> <<>>, alone |-> TRUE]]
    /\ lastOp' = "iter"
    /\ outcome' = "iterator"
    /\ lastId' = 0
    /\ UNCHANGED <<data, peak, next_id, free_ids, heap, file, restored, reassigned,
                   term, found, matching, fieldVars>>

\* AddressBook.__next__, called by traversal t; a batch is written as the keys
\* of the entries whose records it holds
Next_(t) ==
    /\ trav[t].state = "open"
    /\ IF current < Len(data)
       THEN /\ trav' = [Disturbed(t) EXCEPT ![t].batches =
                           Append(@, Slice([i \in 1..Len(data) |-> data[i].key],
                                           current, current + BatchSize))]
            /\ current' = Advance(current)
            /\ outcome' = "batch"
       ELSE /\ trav' = [Disturbed(t) EXCEPT ![t].state = "done"]
            /\ current' = current
            /\ outcome' = "StopIteration"
    /\ lastOp' = "next"
    /\ lastId' = 0
    /\ UNCHANGED <<data, peak, next_id, free_ids, heap, file, restored, reassigned,
                   term, found, matching, fieldVars>>

\* ------------------------------------------------- Record's phone list
\* the strings that Phone objects are made of
PhoneValues == {Phone1, Phone2}

\* the Phone objects that can be named, and those that exist
PhoneIds == 1..MaxPhones
PhoneObjects == 1..Len(made)

\* a == b of two Phone objects: Field defines no __eq__, so it is object's,
\* which holds of an object and itself only
PhoneEq(a, b) == a = b

\* list.index: the first place of list whose item equals p, 0 when there is none
ListIndex(list, p) ==
    IF \E i \in 1..Len(list) : PhoneEq(list[i], p)
    THEN Min({i \in 1..Len(list) : PhoneEq(list[i], p)})
    ELSE 0

\* list.remove(p): the list without its first item equal to p, or ValueError
ListRemove(list, p) ==
    LET i == ListIndex(list, p)
    IN  IF i = 0 THEN [raised |-> TRUE, list |-> list]
        ELSE [raised |-> FALSE,
              list |-> SubSeq(list, 1, i - 1) \o SubSeq(list, i + 1, Len(list))]

\* an edit that appends the new phone before it removes the old one
EditAppendsFirst(list, old, new) ==
    LET r == ListRemove(Append(list, new), old)
    IN  IF r.raised THEN [raised |-> TRUE, list |-> Append(list, new)] ELSE r

\* Record.edit_phone: remove_phone(old), and add_phone(new) if that returned
ListEdit(list, old, new) ==
    LET r == ListRemove(list, old)
    IN  IF r.raised THEN r ELSE [raised |-> FALSE, list |-> Append(r.list, new)]

\* Phone(v) for a string v that validates
NewPhone(v) ==
    /\ Len(made) < MaxPhones
    /\ made' = Append(made, v)
    /\ lastOp' = "Phone"
    /\ outcome' = "made"
    /\ lastId' = 0
    /\ UNCHANGED <<data, peak, next_id, free_ids, heap, file, restored, reassigned,
                   term, found, matching, iterVars,
                   rec_phones, birthday, now, days, raw>>

\* Record.add_phone
AddPhone(p) ==
    /\ p \in PhoneObjects
    /\ Len(rec_phones) < MaxPhones
    /\ rec_phones' = Append(rec_phones, p)
    /\ lastOp' = "add_phone"
    /\ outcome' = "added"
    /\ lastId' = 0
    /\ UNCHANGED <<data, peak, next_id, free_ids, heap, file, restored, reassigned,
                   term, found, matching, iterVars,
                   made, birthday, now, days, raw>>

\* Record.remove_phone
RemovePhone(p) ==
    /\ p \in PhoneObjects
    /\ rec_phones' = ListRemove(rec_phones, p).list
    /\ lastOp' = "remove_phone"
    /\ outcome' = IF ListRemove(rec_phones, p).raised THEN "ValueError" ELSE "removed"
    /\ lastId' = 0
    /\ UNCHANGED <<data, peak, next_id, free_ids, heap, file, restored, reassigned,
                   term, found, matching, iterVars,
                   made, birthday, now, days, raw>>

\* Record.edit_phone
EditPhone(old, new) ==
    /\ old \in PhoneObjects
    /\ new \in PhoneObjects
    /\ rec_phones' = ListEdit(rec_phones, old, new).list
    /\ lastOp' = "edit_phone"
    /\ outcome' = IF ListEdit(rec_phones, old, new).raised THEN "ValueError" ELSE "edited"
    /\ lastId' = 0
    /\ UNCHANGED <<data, peak, next_id, free_ids, heap, file, restored, reassigned,
                   term, found, matching, iterVars,
                   made, birthday, now, days, raw>>

\* ------------------------------------------------------ Phone validation
\* what \d matches, of the characters of the model
Digits == {"0", "1", "2", "3", "4", "5", "6", "7", "8", "9"}

\* the 9 of \d{9}
PhoneDigits == 9

\* $ at place pos of value: the end of the string, or the place of a newline
\* that is the last character
EndAnchor(value, pos) ==
    \/ pos = Len(value) + 1
    \/ pos = Len(value) /\ value[pos] = "\n"

\* Phone.validate_phone: re.match of ^\d{9}$ at the start of value
ValidatePhone(value) ==
    /\ Len(value) >= PhoneDigits
    /\ \A i \in 1..PhoneDigits : value[i] \in Digits
    /\ EndAnchor(value, PhoneDigits + 1)

\* Phone(raw): the string is validated, and only then kept by Field.__init__
MakePhone ==
    /\ Len(made) < MaxPhones
    /\ IF ValidatePhone(raw)
       THEN made' = Append(made, raw) /\ outcome' = "made"
       ELSE made' = made /\ outcome' = "ValueError"
    /\ lastOp' = "Phone(raw)"
    /\ lastId' = 0
    /\ UNCHANGED <<data, peak, next_id, free_ids, heap, file, restored, reassigned,
                   term, found, matching, iterVars,
                   rec_phones, birthday, now, days, raw>>

\* the strings Phone() is given: the digits 1234567890 up to some length, as
\* they are or with one character in place of one of them
OddChars == {"a", "-", " ", "\n"}

DigitRun(n) == [i \in 1..n |-> CHOOSE c \in Digits : c = ToString(i % 10)]

RawInputs ==
    { DigitRun(n) : n \in 0..MaxRawLen }
    \cup UNION { { [DigitRun(n) EXCEPT ![i] = c] : i \in 1..n, c \in OddChars } :
                    n \in 1..MaxRawLen }

\* ------------------------------------------------------------- birthday
Date(y, m, d) == [y |-> y, m |-> m, d |-> d]

\* the proleptic Gregorian calendar of datetime
IsLeap(y) == y % 4 = 0 /\ (y % 100 # 0 \/ y % 400 = 0)

DaysInMonth(y, m) ==
    IF m = 2 THEN (IF IsLeap(y) THEN 29 ELSE 28)
    ELSE IF m \in {4, 6, 9, 11} THEN 30 ELSE 31

\* the dates that datetime(y, m, d) and strptime(value, "%Y-%m-%d") accept
ValidDate(dt) ==
    /\ dt.y \in 1..9999
    /\ dt.m \in 1..12
    /\ dt.d \in 1..DaysInMonth(dt.y, dt.m)

RECURSIVE DaysBeforeMonth(_, _)
DaysBeforeMonth(y, m) ==
    IF m = 1 THEN 0 ELSE DaysBeforeMonth(y, m - 1) + DaysInMonth(y, m - 1)

\* date.toordinal: the days from 0001-01-01, which is day 1
Ordinal(dt) ==
    LET p == dt.y - 1
    IN  p * 365 + (p \div 4) - (p \div 100) + (p \div 400)
          + DaysBeforeMonth(dt.y, dt.m) + dt.d

\* the dates Birthday() is given: days around the ends of February and of the
\* year, a day in June, and two that no calendar has
BirthdayInputs ==
    { Date(2020, 2, 29), Date(2000, 2, 28), Date(2000, 3, 1), Date(1999, 12, 31),
      Date(2001, 1, 1), Date(1990, 6, 15), Date(2021, 2, 29), Date(2000, 4, 31) }

\* the years the clock is in: one that is not a leap year and the leap year
\* after it
NowYears == {2023, 2024}

\* what datetime.now() can return
Instants ==
    { [date |-> Date(y, m, d), tick |-> k] :
        y \in NowYears, m \in 1..12, d \in 1..31, k \in 0..(DayTicks - 1) }
    \cap { n \in [date : [y : NowYears, m : 1..12, d : 1..31], tick : 0..(DayTicks - 1)] :
             ValidDate(n.date) }

\* today > next_birthday, where next_birthday is the midnight of date dt
After(today, dt) ==
    \/ Ordinal(today.date) > Ordinal(dt)
    \/ Ordinal(today.date) = Ordinal(dt) /\ today.tick > 0

\* (next_birthday - today).days: timedelta keeps the floor of the days
DeltaDays(dt, today) ==
    IF today.tick = 0 THEN Ordinal(dt) - Ordinal(today.date)
    ELSE Ordinal(dt) - Ordinal(today.date) - 1

\* Record.days_to_birthday for a birthday b that is set, at the instant today;
\* datetime.replace raises ValueError for a date that does not exist
DaysToBirthday(b, today) ==
    LET this == Date(today.date.y, b.m, b.d)
        after == Date(today.date.y + 1, b.m, b.d)
    IN  IF ~ValidDate(this) THEN [raised |-> TRUE, days |-> 0]
        ELSE IF ~After(today, this) THEN [raised |-> FALSE, days |-> DeltaDays(this, today)]
        ELSE IF ~ValidDate(after) THEN [raised |-> TRUE, days |-> 0]
        ELSE [raised |-> FALSE, days |-> DeltaDays(after, today)]

\* record.birthday = Birthday(value), where value reads as the date dt
SetBirthday(dt) ==
    /\ IF ValidDate(dt)
       THEN birthday' = dt /\ outcome' = "set"
       ELSE birthday' = birthday /\ outcome' = "ValueError"
    /\ lastOp' = "Birthday"
    /\ lastId' = 0
    /\ UNCHANGED <<data, peak, next_id, free_ids, heap, file, restored, reassigned,
                   term, found, matching, iterVars,
                   rec_phones, made, now, days, raw>>

\* Record.days_to_birthday; now is what datetime.now() returns
DoDaysToBirthday ==
    /\ IF birthday = NoDate
       THEN days' = days /\ outcome' = "No birthday set"
       ELSE /\ days' = IF DaysToBirthday(birthday, now).raised THEN days
                       ELSE DaysToBirthday(birthday, now).days
            /\ outcome' = IF DaysToBirthday(birthday, now).raised THEN "ValueError"
                          ELSE "days"
    /\ lastOp' = "days_to_birthday"
    /\ lastId' = 0
    /\ UNCHANGED <<data, peak, next_id, free_ids, heap, file, restored, reassigned,
                   term, found, matching, iterVars,
                   rec_phones, made, birthday, now, raw>>

\* Record.__str__: days_to_birthday is called if a birthday is set, and what
\* it raises leaves __str__
Str ==
    /\ IF birthday = NoDate
       THEN days' = days /\ outcome' = "rendered"
       ELSE /\ days' = IF DaysToBirthday(birthday, now).raised THEN days
                       ELSE DaysToBirthday(birthday, now).days
            /\ outcome' = IF DaysToBirthday(birthday, now).raised THEN "ValueError"
                          ELSE "rendered"
    /\ lastOp' = "__str__"
    /\ lastId' = 0
    /\ UNCHANGED <<data, peak, next_id, free_ids, heap, file, restored, reassigned,
                   term, found, matching, iterVars,
                   rec_phones, made, birthday, now, raw>>

\* ---------------------------------------------------------- edit_record
\* Python values that are compared: the int keys of data, the str of input()
PyInt(k) == [type |-> "int", val |-> k]
PyStr(t) == [type |-> "str", val |-> t]

\* a == b for an int and a str, two ints or two strs: values of different
\* types are not equal
PyEq(a, b) == a.type = b.type /\ a.val = b.val

\* a lookup that reads the text typed as a number: int(name_to_edit) in data
EditLookupAsInt(d, text) ==
    IF \E i \in 1..Len(d) : <<ToString(d[i].key)>> = text
    THEN CHOOSE i \in 1..Len(d) : <<ToString(d[i].key)>> = text
    ELSE 0

\* name_to_edit in book.data, and book.data[name_to_edit]: the place of the
\* entry whose key equals the text typed, 0 when no key does
EditLookup(d, text) ==
    IF \E i \in 1..Len(d) : PyEq(PyInt(d[i].key), PyStr(text))
    THEN CHOOSE i \in 1..Len(d) : PyEq(PyInt(d[i].key), PyStr(text))
    ELSE 0

\* not text.strip(): nothing but blanks
IsBlank(text) == \A i \in 1..Len(text) : text[i] \in {" ", "\n"}

\* the letters and digits of the strings of the model
Alnum == Digits \cup {"a", "b", "c", "l", "o", "A", "B", "L", "O"}

\* Email.validate_email: re.match of ^[a-zA-Z0-9_.+-]+@[a-zA-Z0-9-]+\.[a-zA-Z0-9-.]+$
ValidateEmail(value) ==
    \E at \in 2..Len(value), dot \in 4..Len(value), end \in {Len(value), Len(value) - 1} :
        /\ at + 1 < dot
        /\ dot < end
        /\ EndAnchor(value, end + 1)
        /\ \A i \in 1..(at - 1) : value[i] \in Alnum \cup {"_", ".", "+", "-"}
        /\ value[at] = "@"
        /\ \A i \in (at + 1)..(dot - 1) : value[i] \in Alnum \cup {"-"}
        /\ value[dot] = "."
        /\ \A i \in (dot + 1)..end : value[i] \in Alnum \cup {"-", "."}

\* list.remove of the object at place i of a list of distinct objects,
\* followed by append(new)
EditAt(list, i, new) ==
    Append(SubSeq(list, 1, i - 1) \o SubSeq(list, i + 1, Len(list)), new)

\* the index typed picks an item of list: isdigit() and 0 <= int(text) - 1 < len
Picks(idx, list) == idx.digit /\ idx.val \in 1..Len(list)

\* the Record after the name step
EditedName(rec, inp) ==
    IF IsBlank(inp.new_name) THEN rec ELSE [rec EXCEPT !.name = inp.new_name]

\* Phone(new_phone_number) is made, and may raise, when an index that picks a
\* phone and a new number that is not blank were typed
PhoneStep(rec, inp) == Picks(inp.phone_idx, rec.phones) /\ ~IsBlank(inp.new_phone)

EmailStep(rec, inp) == Picks(inp.email_idx, rec.emails) /\ ~IsBlank(inp.new_email)

\* edit_record(book) with the texts inp typed at its prompts; record.notes is
\* empty for every Record that create_record made, so the note step prints
\* "No notes."
EditRecord(inp) ==
    LET pos == EditLookup(data, inp.name)
        r == data[pos].rec
        named == EditedName(heap[r], inp)
        phoned == IF PhoneStep(named, inp)
                  THEN [named EXCEPT !.phones = EditAt(@, inp.phone_idx.val, inp.new_phone)]
                  ELSE named
        mailed == IF EmailStep(phoned, inp)
                  THEN [phoned EXCEPT !.emails = EditAt(@, inp.email_idx.val, inp.new_email)]
                  ELSE phoned
    IN  /\ IF pos = 0
           THEN /\ outcome' = "Entry not found"
                /\ heap' = heap
           ELSE IF PhoneStep(named, inp) /\ ~ValidatePhone(inp.new_phone)
           THEN /\ outcome' = "ValueError"
                /\ heap' = [heap EXCEPT ![r] = named]
           ELSE IF EmailStep(phoned, inp) /\ ~ValidateEmail(inp.new_email)
           THEN /\ outcome' = "ValueError"
                /\ heap' = [heap EXCEPT ![r] = phoned]
           ELSE /\ outcome' = "Entry updated"
                /\ heap' = [heap EXCEPT ![r] = mailed]
        /\ term' = inp.name
        /\ lastOp' = "edit_record"
        /\ lastId' = 0
        /\ UNCHANGED <<data, peak, next_id, free_ids, file, restored, reassigned,
                       found, matching, iterVars, fieldVars>>

\* ------------------------------------------------------- searching, run
\* main(): found = book.find_record(search_term)
DoFindRecord(t) ==
    /\ found' = FindRecord(data, heap, t)
    /\ term' = t
    /\ matching' = <<>>
    /\ lastOp' = "find_record"
    /\ outcome' = "found"
    /\ UNCHANGED <<data, peak, next_id, free_ids, heap, file, restored, reassigned, lastId>>
    /\ UNCHANGED <<iterVars, fieldVars>>

\* matching_records = self.find_records_by_name(name_to_delete)
DoFindRecordsByName(t) ==
    /\ matching' = FindRecordsByName(data, heap, t)
    /\ term' = t
    /\ found' = <<>>
    /\ lastOp' = "find_records_by_name"
    /\ outcome' = "found"
    /\ UNCHANGED <<data, peak, next_id, free_ids, heap, file, restored, reassigned, lastId>>
    /\ UNCHANGED <<iterVars, fieldVars>>

\* ------------------------------------------------------ specifications
\* what the model types at the prompts of create_record and delete_record
SpecNames == {NameAl}
AllocNames == {NameAl, NameBo}
NameInputs == {<<"a">>, <<"B", "O">>}

\* no traversal was started
IterIdle ==
    /\ current = -1
    /\ trav = [t \in Travs |-> NoTraversal]

\* no Record is being edited, no field is being made or read
FieldsIdle ==
    /\ rec_phones = <<>>
    /\ made = <<>>
    /\ birthday = NoDate
    /\ now = [date |-> NoDate, tick |-> 0]
    /\ days = 0
    /\ raw = <<>>

\* AddressBook.__init__, before any file was written
Init ==
    /\ IterIdle
    /\ FieldsIdle
    /\ data = <<>>
    /\ peak = 0
    /\ next_id = 1
    /\ free_ids = {}
    /\ heap = EmptyHeap
    /\ file = NoFile
    /\ restored = FALSE
    /\ reassigned = {}
    /\ lastOp = "init"
    /\ outcome = "none"
    /\ lastId = 0
    /\ term = <<>>
    /\ found = <<>>
    /\ matching = <<>>

\* the store over the runs of main(): records come and go, the book is
\* written to the file and read back
Next ==
    \/ \E n \in SpecNames : AddNew(n, <<>>, <<>>, MaxRecords)
    \/ \E inp \in IdInputs : DeleteRecordById(inp)
    \/ \E n \in NameInputs, inp \in IdInputs : DeleteRecord(n, inp)
    \/ SaveAddressBook
    \/ LoadAddressBook

Spec == Init /\ [][Next]_vars

\* the store and its file when reading and writing the file can fail
NextPersist ==
    \/ \E n \in SpecNames : AddNew(n, <<>>, <<>>, MaxPersistRecords)
    \/ \E inp \in IdInputs : DeleteRecordById(inp)
    \/ SaveAddressBook
    \/ SaveFails
    \/ LoadAddressBook
    \/ LoadFails

SpecPersist == Init /\ [][NextPersist]_vars

\* the texts typed at the prompts of edit_record: the name of a stored
\* record, the digits of a key, another name, nothing
EditNames == {NameAl, <<"1">>, <<"2">>, NameBo, <<>>}

\* an index typed: not digits, a place of the list, a place beyond it
EditIndexes ==
    {[digit |-> FALSE, val |-> 0], [digit |-> TRUE, val |-> 1], [digit |-> TRUE, val |-> 3]}

EditInputs ==
    [name : EditNames,
     new_name : {<<>>, <<" ">>, NameBo},
     phone_idx : EditIndexes,
     new_phone : {<<>>, Phone2, <<"1", "2">>},
     email_idx : {[digit |-> FALSE, val |-> 0], [digit |-> TRUE, val |-> 1]},
     new_email : {Email1, <<"a", "@">>}]

\* records with and without phones and emails come and go, and edit_record
\* is called
NextEdit ==
    \/ \E n \in SpecNames, p \in {<<>>, <<Phone1>>}, e \in {<<>>, <<Email1>>} :
           AddNew(n, p, e, MaxEditRecords)
    \/ \E inp \in IdInputs : DeleteRecordById(inp)
    \/ \E inp \in EditInputs : EditRecord(inp)

SpecEdit == Init /\ [][NextEdit]_vars

\* a store created empty and changed by add_record and the two deletes only
NextAlloc ==
    \/ \E n \in AllocNames : AddNew(n, <<>>, <<>>, MaxChurn)
    \/ \E inp \in IdInputs : DeleteRecordById(inp)
    \/ \E n \in NameInputs, inp \in IdInputs : DeleteRecord(n, inp)

SpecAlloc == Init /\ [][NextAlloc]_vars

\* as SpecAlloc, and add_record is also called with Records the book holds
NextAlias ==
    \/ \E n \in SpecNames : AddNew(n, <<>>, <<>>, MaxRecords)
    \/ \E r \in Refs : AddExisting(r, MaxRecords)
    \/ \E inp \in IdInputs : DeleteRecordById(inp)

SpecAlias == Init /\ [][NextAlias]_vars

\* the searches, on stores of records with names, phones and emails
FindNames == {NameAl, NameBo, NameA1}
FindPhoneLists == {<<>>, <<Phone2, Phone1>>}
FindEmailLists == {<<>>, <<Email1>>}
FindTerms == {<<>>, <<"1">>, <<"a">>, <<"A">>, <<"B">>, <<"b">>, <<"a", "L">>, <<"0", "9">>}

FindRecords ==
    {NewRecord(n, p, e) : n \in FindNames, p \in FindPhoneLists, e \in FindEmailLists}

\* a store that add_record and the deletes left with n records: any order of
\* distinct keys, every record carries its key, released ids below next_id
InitFind ==
    /\ IterIdle
    /\ FieldsIdle
    /\ \E n \in 0..MaxFindRecords :
       \E ks \in [1..n -> 1..MaxFindRecords], recs \in [1..n -> FindRecords] :
          /\ \A i, j \in 1..n : i # j => ks[i] # ks[j]
          /\ data = [i \in 1..n |-> [key |-> ks[i], rec |-> i]]
          /\ heap = [r \in Refs |->
                        IF r <= n THEN [recs[r] EXCEPT !.id = ks[r]] ELSE NoRecord]
          /\ next_id = MaxFindRecords + 1
          /\ peak = MaxFindRecords
          /\ free_ids = (1..MaxFindRecords) \ {ks[i] : i \in 1..n}
    /\ file = NoFile
    /\ restored = FALSE
    /\ reassigned = {}
    /\ lastOp = "init"
    /\ outcome = "none"
    /\ lastId = 0
    /\ term = <<>>
    /\ found = <<>>
    /\ matching = <<>>

NextFind ==
    \/ \E t \in FindTerms : DoFindRecord(t)
    \/ \E t \in FindTerms : DoFindRecordsByName(t)

SpecFind == InitFind /\ [][NextFind]_vars

\* the traversals, on a store that n inserts into a new AddressBook left
InitIter ==
    /\ \E n \in 0..MaxIterRecords :
          /\ data = [i \in 1..n |-> [key |-> i, rec |-> i]]
          /\ heap = [r \in Refs |->
                        IF r <= n THEN [NewRecord(NameAl, <<>>, <<>>) EXCEPT !.id = r]
                        ELSE NoRecord]
          /\ next_id = n + 1
          /\ peak = n
    /\ free_ids = {}
    /\ file = NoFile
    /\ restored = FALSE
    /\ reassigned = {}
    /\ lastOp = "init"
    /\ outcome = "none"
    /\ lastId = 0
    /\ term = <<>>
    /\ found = <<>>
    /\ matching = <<>>
    /\ IterIdle
    /\ FieldsIdle

NextIter ==
    \/ \E t \in Travs : Iter(t)
    \/ \E t \in Travs : Next_(t)

SpecIter == InitIter /\ [][NextIter]_vars

\* one traversal of a store that add_record and delete_record_by_id change
\* while it is under way
NextIterMut ==
    \/ \E n \in SpecNames : AddNew(n, <<>>, <<>>, MaxRecords)
    \/ \E inp \in IdInputs : DeleteRecordById(inp)
    \/ Iter(1)
    \/ Next_(1)

SpecIterMut == Init /\ [][NextIterMut]_vars

\* one Record's phone list, and the Phone objects its callers hold
NextRecord ==
    \/ \E v \in PhoneValues : NewPhone(v)
    \/ \E p \in PhoneIds : AddPhone(p)
    \/ \E p \in PhoneIds : RemovePhone(p)
    \/ \E old, new \in PhoneIds : EditPhone(old, new)

SpecRecord == Init /\ [][NextRecord]_vars

\* one Record's birthday, read at an instant of one of two years
InitBirthday ==
    /\ data = <<>>
    /\ peak = 0
    /\ next_id = 1
    /\ free_ids = {}
    /\ heap = EmptyHeap
    /\ file = NoFile
    /\ restored = FALSE
    /\ reassigned = {}
    /\ lastOp = "init"
    /\ outcome = "none"
    /\ lastId = 0
    /\ term = <<>>
    /\ found = <<>>
    /\ matching = <<>>
    /\ IterIdle
    /\ rec_phones = <<>>
    /\ made = <<>>
    /\ birthday = NoDate
    /\ now \in Instants
    /\ days = 0
    /\ raw = <<>>

NextBirthday ==
    \/ \E dt \in BirthdayInputs : SetBirthday(dt)
    \/ DoDaysToBirthday
    \/ Str

SpecBirthday == InitBirthday /\ [][NextBirthday]_vars

\* Phone() on the strings of RawInputs
InitPhone ==
    /\ data = <<>>
    /\ peak = 0
    /\ next_id = 1
    /\ free_ids = {}
    /\ heap = EmptyHeap
    /\ file = NoFile
    /\ restored = FALSE
    /\ reassigned = {}
    /\ lastOp = "init"
    /\ outcome = "none"
    /\ lastId = 0
    /\ term = <<>>
    /\ found = <<>>
    /\ matching = <<>>
    /\ IterIdle
    /\ rec_phones = <<>>
    /\ made = <<>>
    /\ birthday = NoDate
    /\ now = [date |-> NoDate, tick |-> 0]
    /\ days = 0
    /\ raw \in RawInputs

NextPhone == MakePhone

SpecPhone == InitPhone /\ [][NextPhone]_vars

\* ------------------------------------------------------------ properties
TypeOK ==
    /\ next_id \in Nat \ {0}
    /\ free_ids \subseteq Nat \ {0}
    /\ \A i \in 1..Len(data) : heap[data[i].rec].live

KeySeq(d) == [i \in 1..Len(d) |-> d[i].key]

Deletes == {"delete_record_by_id", "delete_record"}

\* C1: add_record never assigns an id that is a key of entries: every insert
\* lengthens entries by one and leaves every entry that was there, and the
\* record it holds, as it was; also in a store returned by load_address_book.
C1_AddNeverOverwrites ==
    [][lastOp' = "add" =>
        /\ lastId' \notin Keys(data)
        /\ Len(data') = Len(data) + 1
        /\ \A i \in 1..Len(data) :
              /\ data'[i] = data[i]
              /\ heap'[data[i].rec] = heap[data[i].rec]]_vars

\* an insert into a restored store that already held records
C1_Witness == lastOp = "add" /\ restored /\ Len(data) >= 2 /\ lastId > 1

\* C2: free_ids and the keys of entries are disjoint in every state.
C2_FreeDisjoint == free_ids \cap Keys(data) = {}

\* an insert reused one released id while another one stays released
C2_Witness == lastOp = "add" /\ free_ids # {} /\ Len(data) >= 2

\* C3: every key of entries maps to a Record whose id is that key, and no
\* Record has its id assigned twice.
C3_KeyIsRecordId ==
    /\ \A i \in 1..Len(data) : heap[data[i].rec].id = data[i].key
    /\ reassigned = {}

\* the store states of the scenario of C4: order of the keys, next_id, free_ids
ScenarioStates ==
    << [keys |-> <<>>,           next |-> 1, free |-> {}],
       [keys |-> <<1>>,          next |-> 2, free |-> {}],
       [keys |-> <<1, 2>>,       next |-> 3, free |-> {}],
       [keys |-> <<1, 2, 3>>,    next |-> 4, free |-> {}],
       [keys |-> <<1, 3>>,       next |-> 4, free |-> {2}],
       [keys |-> <<1, 3, 2>>,    next |-> 4, free |-> {}],
       [keys |-> <<3, 2>>,       next |-> 4, free |-> {1}],
       [keys |-> <<2>>,          next |-> 4, free |-> {1, 3}],
       [keys |-> <<2, 1>>,       next |-> 4, free |-> {3}],
       [keys |-> <<2, 1, 3>>,    next |-> 4, free |-> {}],
       [keys |-> <<2, 1, 3, 4>>, next |-> 5, free |-> {}] >>

\* the operations of the scenario of C4 and the id each is about
ScenarioOps ==
    << [op |-> "add", id |-> 1], [op |-> "add", id |-> 2], [op |-> "add", id |-> 3],
       [op |-> "del", id |-> 2], [op |-> "add", id |-> 2],
       [op |-> "del", id |-> 1], [op |-> "del", id |-> 3],
       [op |-> "add", id |-> 1], [op |-> "add", id |-> 3], [op |-> "add", id |-> 4] >>

C4_At(k) ==
    /\ KeySeq(data) = ScenarioStates[k].keys
    /\ next_id = ScenarioStates[k].next
    /\ free_ids = ScenarioStates[k].free

\* C4: add_record assigns the least element of free_ids and removes it from
\* free_ids when free_ids is not empty, and assigns next_id only when free_ids
\* is empty; so on a new store three inserts get 1, 2, 3, after deleting 2 the
\* next insert gets 2, after deleting 1 and 3 the next two get 1 then 3 and the
\* one after them gets 4.
C4_SmallestFreeFirst ==
    [][/\ lastOp' = "add" =>
            IF free_ids # {}
            THEN /\ lastId' \in free_ids
                 /\ \A y \in free_ids : lastId' <= y
                 /\ free_ids' = free_ids \ {lastId'}
                 /\ next_id' = next_id
            ELSE /\ lastId' = next_id
                 /\ next_id' = next_id + 1
                 /\ free_ids' = {}
       /\ \A k \in 1..Len(ScenarioOps) :
            (/\ C4_At(k)
             /\ IF ScenarioOps[k].op = "add"
                THEN lastOp' = "add"
                ELSE /\ lastOp' \in Deletes
                     /\ outcome' = "deleted"
                     /\ ScenarioOps[k].id \notin Keys(data'))
            => /\ ScenarioOps[k].op = "add" => lastId' = ScenarioOps[k].id
               /\ KeySeq(data') = ScenarioStates[k + 1].keys
               /\ next_id' = ScenarioStates[k + 1].next
               /\ free_ids' = ScenarioStates[k + 1].free]_vars

\* the scenario was run to its end: the last insert got 4
C4_Witness == lastOp = "add" /\ lastId = 4 /\ C4_At(Len(ScenarioStates))

\* C5: after every add_record, next_id is neither a key of entries nor an
\* element of free_ids.
C5_NextIdUnreserved ==
    lastOp = "add" => next_id \notin (Keys(data) \cup free_ids)

\* what C6 says of one delete, given whether the text typed is an integer
C6_Effect(isInt, id) ==
    IF isInt /\ id \in Keys(data)
    THEN /\ outcome' = "deleted"
         /\ Keys(data') = Keys(data) \ {id}
         /\ Len(data') = Len(data) - 1
         /\ free_ids' = free_ids \cup {id}
         /\ next_id' = next_id
         /\ \A i \in 1..Len(data) :
               data[i].key # id =>
                   \E j \in 1..Len(data') :
                       /\ data'[j].key = data[i].key
                       /\ heap'[data'[j].rec] = heap[data[i].rec]
         /\ \A i, j \in 1..Len(data') :
               i < j => \E a, b \in 1..Len(data) :
                            /\ a < b
                            /\ data[a].key = data'[i].key
                            /\ data[b].key = data'[j].key
    ELSE /\ outcome' = (IF isInt THEN "notfound" ELSE "invalid")
         /\ data' = data
         /\ free_ids' = free_ids
         /\ next_id' = next_id
         /\ heap' = heap

\* C6: a delete by id removes the entry of an id that is a key and adds that
\* id, and no other, to free_ids, next_id and the other entries staying as
\* they were; for an id that is no key, or a text that is no integer, it
\* reports not found or invalid and leaves entries, free_ids and next_id alone.
C6_DeleteById ==
    [][/\ lastOp' = "delete_record_by_id" =>
            \A inp \in IdInputs :
                DeleteRecordById(inp) => C6_Effect(inp.num, inp.val)
       /\ (lastOp' = "delete_record" /\ outcome' # "nomatch") =>
            \A n \in NameInputs, inp \in IdInputs :
                DeleteRecord(n, inp) => C6_Effect(inp.num /\ ~inp.prefix, inp.val)]_vars

\* delete_record removed one of several entries
C6_Witness ==
    lastOp = "delete_record" /\ outcome = "deleted" /\ Len(data) >= 1 /\ free_ids # {}

\* C7: save_address_book followed by load_address_book gives an equivalent
\* store: the same ids with the same records, the same free_ids, the same
\* next_id.
C7_RoundTrip ==
    [][(lastOp = "save" /\ ~restored /\ lastOp' = "load") =>
        /\ KeySeq(data') = KeySeq(data)
        /\ \A i \in 1..Len(data) : heap'[data'[i].rec] = heap[data[i].rec]
        /\ free_ids' = free_ids
        /\ next_id' = next_id]_vars

\* C8: find_record returns each stored Record at most once.
C8_FoundOnce ==
    lastOp = "find_record" =>
        \A i, j \in 1..Len(found) : i # j => found[i] # found[j]

\* the test of C9 on one record
C9_Matches(t, rec) ==
    \/ IsSubstr(Lower(t), Lower(rec.name))
    \/ \E i \in 1..Len(rec.phones) : IsSubstr(t, rec.phones[i])
    \/ \E i \in 1..Len(rec.emails) : IsSubstr(t, rec.emails[i])

\* C9: find_record returns a record if and only if the lower-cased term is in
\* its lower-cased name, or the term as typed is in one of its phones or one
\* of its emails; the records come in the order of entries.
C9_FindRecord ==
    lastOp = "find_record" =>
        /\ \A j \in 1..Len(found) : found[j] \in Values(data)
        /\ \A i \in 1..Len(data) :
              (\E j \in 1..Len(found) : found[j] = data[i].rec)
                  <=> C9_Matches(term, heap[data[i].rec])
        /\ \A j, k \in 1..Len(found) :
              j < k => \E a, b \in 1..Len(data) :
                          a <= b /\ data[a].rec = found[j] /\ data[b].rec = found[k]

\* a search that found one record by a phone or an email and left one out
C9_Witness ==
    /\ lastOp = "find_record"
    /\ \E j \in 1..Len(found) : ~IsSubstr(Lower(term), Lower(heap[found[j]].name))
    /\ \E i \in 1..Len(data) : \A j \in 1..Len(found) : found[j] # data[i].rec

\* C10: find_records_by_name returns exactly the pairs (key, record) of
\* entries whose lower-cased name holds the lower-cased argument, in the order
\* of entries and each once; phones and emails play no part.
C10_FindByName ==
    lastOp = "find_records_by_name" =>
        matching = SelectSeq(data,
                       LAMBDA e : IsSubstr(Lower(term), Lower(heap[e.rec].name)))

\* a by-name search that left out a record whose phone holds the argument
C10_Witness ==
    /\ lastOp = "find_records_by_name"
    /\ matching # <<>>
    /\ \E i \in 1..Len(data) :
          /\ \A j \in 1..Len(matching) : matching[j] # data[i]
          /\ \E q \in 1..Len(heap[data[i].rec].phones) :
                IsSubstr(term, heap[data[i].rec].phones[q])

\* the batches of a traversal, one after the other
RECURSIVE Flatten(_)
Flatten(bs) == IF bs = <<>> THEN <<>> ELSE Head(bs) \o Flatten(Tail(bs))

\* C11: a traversal on its own of a store of n records that is not changed
\* ends after ceil(n/5) batches; every batch but the last holds 5 records, the
\* last holds 1 to 5, none is empty, and together they are the records of
\* entries in insertion order, each once.
C11_Batches ==
    \A t \in Travs :
        (trav[t].state = "done" /\ trav[t].alone) =>
            LET b == trav[t].batches
                n == Len(data)
            IN  /\ Len(b) = (n + BatchSize - 1) \div BatchSize
                /\ \A i \in 1..(Len(b) - 1) : Len(b[i]) = BatchSize
                /\ Len(b) > 0 => Len(b[Len(b)]) \in 1..BatchSize
                /\ Flatten(b) = KeySeq(data)

\* twelve records were handed out in batches of 5, 5 and 2
C11_Witness ==
    \E t \in Travs :
        /\ trav[t].state = "done"
        /\ trav[t].alone
        /\ Len(data) = 12
        /\ [i \in 1..Len(trav[t].batches) |-> Len(trav[t].batches[i])] = <<5, 5, 2>>

\* C12: each of two traversals of a store whose steps are interleaved has its
\* own offset and is handed every record once, in insertion order; starting
\* the second neither resets nor advances the first.
C12_OwnOffset ==
    /\ \A t \in Travs :
          trav[t].state = "done" => Flatten(trav[t].batches) = trav[t].start
    /\ \A t \in Travs :
          trav[t].state = "open" =>
              \E k \in 0..Len(trav[t].start) :
                  Flatten(trav[t].batches) = SubSeq(trav[t].start, 1, k)

\* C13: a traversal is handed the records that were in entries when it
\* started, each once, whatever is inserted or deleted between its steps.
C13_SnapshotAtStart ==
    trav[1].state = "done" => Flatten(trav[1].batches) = trav[1].start

\* the strings of the phones of a list
PhoneStrings(list) == {made[list[i]] : i \in 1..Len(list)}

\* C14: remove_phone(p) removes one phone whose string is p's whenever the
\* list holds such a phone, also when p was constructed separately, and fails
\* only when no phone of the list has p's string.
C14_RemoveByValue ==
    [][\A p \in PhoneObjects :
          RemovePhone(p) =>
             IF made[p] \in PhoneStrings(rec_phones)
             THEN /\ outcome' = "removed"
                  /\ Len(rec_phones') = Len(rec_phones) - 1
                  /\ \E i \in 1..Len(rec_phones) :
                        /\ made[rec_phones[i]] = made[p]
                        /\ rec_phones' = SubSeq(rec_phones, 1, i - 1)
                                           \o SubSeq(rec_phones, i + 1, Len(rec_phones))
             ELSE /\ outcome' = "ValueError"
                  /\ rec_phones' = rec_phones]_vars

\* C15: edit_phone(old, new) either fails and leaves the phone list as it was,
\* which it does whenever old is not in the list, or removes the first
\* occurrence of old and appends new, so that the length stays the same; it is
\* what remove_phone(old) followed by add_phone(new) make of the list.
C15_EditAtomic ==
    [][\A old, new \in PhoneObjects :
          EditPhone(old, new) =>
             LET i == ListIndex(rec_phones, old)
             IN  /\ (i = 0) <=> (outcome' = "ValueError")
                 /\ made[old] \notin PhoneStrings(rec_phones) => outcome' = "ValueError"
                 /\ outcome' = "ValueError" => rec_phones' = rec_phones
                 /\ outcome' = "edited" =>
                       /\ Len(rec_phones') = Len(rec_phones)
                       /\ rec_phones'[Len(rec_phones')] = new
                       /\ rec_phones[i] = old
                       /\ \A j \in 1..(i - 1) : rec_phones[j] # old /\ rec_phones'[j] = rec_phones[j]
                       /\ \A j \in i..(Len(rec_phones) - 1) : rec_phones'[j] = rec_phones[j + 1]
                       /\ rec_phones' = Append(ListRemove(rec_phones, old).list, new)]_vars

\* an edit_phone failed on a list that holds phones
C15_Witness ==
    /\ lastOp = "edit_phone"
    /\ outcome = "ValueError"
    /\ Len(rec_phones) >= 2

\* the calendar days from the date of today to the next day, that day or a
\* later one, with the month and day of b
CalendarDays(b, today) ==
    LET this == Date(today.date.y, b.m, b.d)
        after == Date(today.date.y + 1, b.m, b.d)
    IN  IF ValidDate(this) /\ Ordinal(this) >= Ordinal(today.date)
        THEN Ordinal(this) - Ordinal(today.date)
        ELSE Ordinal(after) - Ordinal(today.date)

\* C16: days_to_birthday counts whole calendar days from the current date to
\* the next occurrence of the birthday's month and day on or after it, whatever
\* the time of day: 0 all day on the birthday, 1 all day on the day before.
C16_DateOnly ==
    (lastOp = "days_to_birthday" /\ outcome = "days") =>
        /\ days = CalendarDays(birthday, now)
        /\ (now.date.m = birthday.m /\ now.date.d = birthday.d) => days = 0

\* C17: for every birthday that Birthday accepts and every current date,
\* days_to_birthday returns a number that is not negative and raises nothing,
\* and so does not make Record.__str__ raise.
C17_NeverRaises ==
    (lastOp \in {"days_to_birthday", "__str__"} /\ birthday # NoDate) =>
        /\ outcome # "ValueError"
        /\ days >= 0

\* C18: Phone(value) succeeds exactly when value is 9 decimal digits and
\* nothing else; every other string, one that ends in a newline too, raises
\* the validation error and no Phone is made.
C18_ExactlyNineDigits ==
    lastOp = "Phone(raw)" =>
        /\ (outcome = "made") <=>
              (Len(raw) = PhoneDigits /\ \A i \in 1..Len(raw) : raw[i] \in Digits)
        /\ outcome # "made" => outcome = "ValueError" /\ made = <<>>
        /\ \A i \in 1..Len(made) : Len(made[i]) = PhoneDigits

\* C19: load_address_book returns the store of the file or, when the file
\* is missing and when reading it raises, a new empty store with next_id 1 and
\* no free ids, and raises nothing; a save_address_book that fails reports it
\* and leaves entries, free_ids and next_id as they were.
C19_LoadSaveNeverFail ==
    [][/\ lastOp' = "load" =>
            /\ outcome' \in {"restored", "missing", "load_error"}
            /\ ~file.exists => outcome' = "missing"
            /\ (file.exists /\ file.torn) => outcome' = "load_error"
            /\ outcome' # "restored" =>
                  /\ data' = <<>>
                  /\ next_id' = 1
                  /\ free_ids' = {}
       /\ (lastOp' = "save" /\ outcome' = "save_error") =>
            /\ data' = data
            /\ heap' = heap
            /\ free_ids' = free_ids
            /\ next_id' = next_id]_vars

\* a load found the file that a failed save had torn, while the store held
\* records, and returned an empty store
C19_Witness ==
    /\ lastOp = "load"
    /\ outcome = "load_error"
    /\ file = TornFile
    /\ data = <<>>

\* C20: in a store created empty and changed by add_record and the deletes
\* only, the keys of entries and free_ids together are exactly 1..next_id-1:
\* no gap, and every assigned id is positive and below next_id.
C20_GapFree ==
    /\ Keys(data) \cup free_ids = 1..(next_id - 1)
    /\ \A r \in Refs : heap[r] # NoRecord => heap[r].id \in 1..(next_id - 1)

\* an insert reused a released id while another id stayed released
C20_Witness ==
    /\ lastOp = "add"
    /\ lastId \in 1..(next_id - 2)
    /\ free_ids # {}
    /\ Len(data) >= 2

\* C21: in a store created empty and changed by add_record and the deletes
\* only, next_id - 1, the largest id ever assigned, is the most records the
\* store held at one time; an insert after a delete leaves next_id as it was.
C21_IdsStayDense ==
    /\ next_id - 1 = peak
    /\ [][/\ next_id' - 1 = peak'
          /\ (lastOp \in {"delete_record_by_id", "delete_record"}
                /\ outcome = "deleted" /\ lastOp' = "add") =>
                 /\ next_id' = next_id
                 /\ lastId' < next_id]_vars

\* records came and went: after a delete an insert took a released id, and
\* the store is below the most it held
C21_Witness ==
    /\ lastOp = "add"
    /\ free_ids # {}
    /\ Len(data) < peak
    /\ peak >= 3
    /\ next_id - 1 = peak

====
